---- MODULE Spec2Model ----
(***************************************************************************)
(* FinAgentPro: the workflow orchestrator (backend/agents/orchestrator.py) *)
(* and the fraud analyzer whose result it branches on                      *)
(* (backend/agents/fraud_analyzer.py), with the invoice validation of      *)
(* backend/agents/invoice_agent.py.                                        *)
(*                                                                         *)
(* Numbers.  Python floats are modelled as scaled integers:                *)
(*   features          in thousandths   (0.8  -> 800)                      *)
(*   ml_score          in hundredths    (63.33 -> 6333)                    *)
(*   rule_score        in whole points  (sums of 40, 35, 25, 15, 30)       *)
(*   composite_score   in thousandths   (69.998 -> 69998)                  *)
(*   risk_score        in hundredths    (round(composite, 2))              *)
(*   confidence        in hundredths    (0.95 -> 95)                       *)
(* An optional value (Python None or a value) is <<>> or <<v>>.            *)
(***************************************************************************)
EXTENDS Integers, Sequences, FiniteSets, TLC

VARIABLES
    active_workflows,   \* WorkflowOrchestrator.active_workflows: workflow id -> record
    call,               \* each execute_workflow invocation: position, locals, outcome
    forecast_tasks,     \* the tasks detached with asyncio.create_task: workflow id -> states
    status_reply,       \* what the last get_workflow_status call returned
    background_tasks,   \* WorkflowOrchestrator.background_tasks: the tasks, in order
    stop_call,          \* the stop_background_tasks invocations, in the order made:
                        \* position and tasks gathered of each
    analyzer            \* the two most recent calls of FraudAnalyzerAgent's functions

vars == <<active_workflows, call, forecast_tasks, status_reply, background_tasks,
          stop_call, analyzer>>

\* What the steps of execute_workflow and of its workflows leave alone.
outside_workflows == <<status_reply, background_tasks, stop_call, analyzer>>

\* What the steps outside execute_workflow leave alone.
workflow_vars == <<active_workflows, call, forecast_tasks>>

-----------------------------------------------------------------------------
(* Bounds of the model *)

\* The number of execute_workflow invocations, interleaved at their awaits.
MaxCalls == 1

Calls == 1..MaxCalls

\* The number of stop_background_tasks calls.
MaxStops == 2

\* The number of start_background_tasks calls.
MaxStarts == 2

-----------------------------------------------------------------------------
(* Small helpers *)

Min(a, b) == IF a <= b THEN a ELSE b

Abs(a) == IF a >= 0 THEN a ELSE 0 - a

RECURSIVE SumSeq(_)
SumSeq(s) == IF s = <<>> THEN 0 ELSE Head(s) + SumSeq(Tail(s))

\* A value that is absent (a local not yet bound, a key not in a dict).
NoResult == [kind |-> "none"]

-----------------------------------------------------------------------------
(* FraudAnalyzerAgent *)

\* self.thresholds
Thresholds == [critical |-> 90, high |-> 80, medium |-> 70, low |-> 60]

\* The profile _load_user_profile returns (the same for every user).
UserProfile ==
    [avg_transaction |-> 250,
     std_transaction |-> 150,
     frequent_merchants |-> {"Amazon", "Office Depot", "Starbucks", "Shell Gas"},
     typical_categories |-> {"Office Supplies", "Meals & Entertainment", "Travel"},
     typical_transaction_hours |-> 9..17]

\* The location of a transaction that has none (None).
NoLocation == <<>>

\* Mutant of _extract_features: the z-score is neither divided by 3 nor capped.
_extract_features_raw_zscore(amount, merchant, category, hour, location, user_profile) ==
    LET avg == user_profile.avg_transaction
        std == user_profile.std_transaction
        amount_ok == amount # <<>> /\ amount[1] # 0 /\ avg # 0 /\ std # 0
        z_score == IF std > 0
                   THEN (Abs(amount[1] - avg) * 1000) \div std
                   ELSE 0
    IN  [amount_zscore |-> IF amount_ok THEN z_score ELSE 0,
         large_amount |-> IF amount_ok /\ amount[1] > avg + 3 * std THEN 1000 ELSE 0,
         merchant_novelty |->
             IF merchant # ""
             THEN (IF merchant \in user_profile.frequent_merchants THEN 0 ELSE 1000)
             ELSE 500,
         category_mismatch |->
             IF category # ""
             THEN (IF category \in user_profile.typical_categories THEN 0 ELSE 600)
             ELSE 300,
         off_hours |-> IF hour \in user_profile.typical_transaction_hours THEN 0 ELSE 800,
         velocity_1h |-> 200,
         velocity_24h |-> 100,
         location_distance |-> 100]

\* Mutant of _extract_features: velocity_1h is a measured rate, above the
\* rapid-transactions threshold, instead of the placeholder.
_extract_features_live_velocity(amount, merchant, category, hour, location, user_profile) ==
    [_extract_features_raw_zscore(amount, merchant, category, hour, location,
                                  user_profile)
        EXCEPT !.amount_zscore = Min(@ \div 3, 1000), !.velocity_1h = 600]

\* _extract_features.  amount is <<>> (None) or <<dollars>>; merchant and
\* category are "" when absent (None and "" are both falsy); hour is
\* timestamp.hour; location is <<>> (None) or <<place>> and is not read.
\* The z-score quotient is truncated to thousandths.
_extract_features(amount, merchant, category, hour, location, user_profile) ==
    LET avg == user_profile.avg_transaction
        std == user_profile.std_transaction
        amount_ok == amount # <<>> /\ amount[1] # 0 /\ avg # 0 /\ std # 0
        z_score == IF std > 0
                   THEN (Abs(amount[1] - avg) * 1000) \div std
                   ELSE 0
    IN  [amount_zscore |-> IF amount_ok THEN Min(z_score \div 3, 1000) ELSE 0,
         large_amount |-> IF amount_ok /\ amount[1] > avg + 3 * std THEN 1000 ELSE 0,
         merchant_novelty |->
             IF merchant # ""
             THEN (IF merchant \in user_profile.frequent_merchants THEN 0 ELSE 1000)
             ELSE 500,
         category_mismatch |->
             IF category # ""
             THEN (IF category \in user_profile.typical_categories THEN 0 ELSE 600)
             ELSE 300,
         off_hours |-> IF hour \in user_profile.typical_transaction_hours THEN 0 ELSE 800,
         velocity_1h |-> 200,
         velocity_24h |-> 100,
         location_distance |-> 100]

\* _apply_fraud_rules: the rules that fire, in the order the code appends them.
FiredRules(features) ==
    (IF features.large_amount > 0 THEN <<40>> ELSE <<>>)
    \o (IF features.velocity_1h > 500 THEN <<35>> ELSE <<>>)
    \o (IF features.merchant_novelty > 800 THEN <<25>> ELSE <<>>)
    \o (IF features.off_hours > 500 THEN <<15>> ELSE <<>>)
    \o (IF features.location_distance > 700 THEN <<30>> ELSE <<>>)

\* Mutant of _apply_fraud_rules: the sum is not capped.
_apply_fraud_rules_uncapped(features) == SumSeq(FiredRules(features))

_apply_fraud_rules(features) ==
    LET rule_scores == FiredRules(features)
    IN  IF rule_scores # <<>> THEN Min(SumSeq(rule_scores), 100) ELSE 0

\* Mutant of _calculate_composite_score: the two weights are exchanged.
_calculate_composite_score_swapped(ml_score, rule_score) ==
    Min(4 * ml_score + 600 * rule_score, 100 * 1000)

\* _calculate_composite_score: ml_score * 0.6 + rule_score * 0.4, capped at 100.
\* ml_score is in hundredths, the result in thousandths.
_calculate_composite_score(ml_score, rule_score) ==
    Min(6 * ml_score + 400 * rule_score, 100 * 1000)

\* Mutant of _determine_response: the lower bounds are exclusive.
_determine_response_exclusive(risk_score) ==
    IF risk_score > Thresholds.critical * 1000
    THEN [severity |-> "critical",
          actions |-> <<"Block transaction immediately",
                        "Require multi-factor authentication",
                        "Notify security team",
                        "Send SMS alert to user">>]
    ELSE IF risk_score > Thresholds.high * 1000
    THEN [severity |-> "high",
          actions |-> <<"Hold transaction for review",
                        "Require 2FA verification",
                        "Send email alert">>]
    ELSE IF risk_score > Thresholds.medium * 1000
    THEN [severity |-> "medium",
          actions |-> <<"Flag for manual review",
                        "Send notification to user",
                        "Monitor subsequent transactions">>]
    ELSE IF risk_score > Thresholds.low * 1000
    THEN [severity |-> "low",
          actions |-> <<"Log for analysis", "Continue monitoring">>]
    ELSE [severity |-> "none", actions |-> <<"Approve transaction">>]

\* _determine_response: a composite score in thousandths to (severity, actions).
_determine_response(risk_score) ==
    IF risk_score >= Thresholds.critical * 1000
    THEN [severity |-> "critical",
          actions |-> <<"Block transaction immediately",
                        "Require multi-factor authentication",
                        "Notify security team",
                        "Send SMS alert to user">>]
    ELSE IF risk_score >= Thresholds.high * 1000
    THEN [severity |-> "high",
          actions |-> <<"Hold transaction for review",
                        "Require 2FA verification",
                        "Send email alert">>]
    ELSE IF risk_score >= Thresholds.medium * 1000
    THEN [severity |-> "medium",
          actions |-> <<"Flag for manual review",
                        "Send notification to user",
                        "Monitor subsequent transactions">>]
    ELSE IF risk_score >= Thresholds.low * 1000
    THEN [severity |-> "low",
          actions |-> <<"Log for analysis", "Continue monitoring">>]
    ELSE [severity |-> "none", actions |-> <<"Approve transaction">>]

\* 2^e modulo 1000.
RECURSIVE Pow2Mod1000(_)
Pow2Mod1000(e) == IF e = 0 THEN 1 ELSE (2 * Pow2Mod1000(e - 1)) % 1000

\* The binary exponent of x / 1000 for x > 0: the k with 2^k <= x / 1000 < 2^(k+1).
RECURSIVE BinaryExponent(_, _)
BinaryExponent(num, den) ==
    IF num >= 2 * den THEN 1 + BinaryExponent(num, 2 * den)
    ELSE IF num < den THEN BinaryExponent(2 * num, den) - 1
    ELSE 0

\* Whether the double nearest to x / 1000 lies above x / 1000: its 53-bit
\* significand is x * 2^e / 1000 rounded to an integer, e = 52 - exponent, and
\* the rounding goes up when the remainder of the division is above a half.
DoubleLiesAbove(x) ==
    LET e == 52 - BinaryExponent(x, 1000)
    IN  ((x % 1000) * Pow2Mod1000(e)) % 1000 > 500

\* round(x, 2) of the double nearest to x / 1000 (x >= 0, in thousandths),
\* in hundredths.  round() rounds the binary value of the double correctly:
\* where the decimal ends in a 5 the double decides, going up when it lies
\* above the decimal and down when it lies below; when the decimal is exact
\* in binary (a multiple of 1/8) the tie goes to the even hundredth.
Round2(x) ==
    LET q == x \div 10
        r == x % 10
    IN  IF r > 5 THEN q + 1
        ELSE IF r < 5 THEN q
        ELSE IF x % 125 = 0 THEN (IF q % 2 = 1 THEN q + 1 ELSE q)
        ELSE IF DoubleLiesAbove(x) THEN q + 1 ELSE q

\* Mutant of AlertsCreated: the alert is decided on the rounded score.
AlertsCreatedOnRounded(composite_score) ==
    IF Round2(composite_score) >= Thresholds.medium * 100 THEN 1 ELSE 0

\* Lines 131-136 of analyze_transaction: the number of _create_fraud_alert
\* calls, one when the composite score reaches the medium threshold.
AlertsCreated(composite_score) ==
    IF composite_score >= Thresholds.medium * 1000 THEN 1 ELSE 0

\* Mutant of AnalysisResult: the two flags are taken from the rounded score.
AnalysisResultRounded(amount, merchant, category, hour, ml_score) ==
    LET features == _extract_features(amount, merchant, category, hour, NoLocation,
                                      UserProfile)
        rule_score == _apply_fraud_rules(features)
        composite_score == _calculate_composite_score(ml_score, rule_score)
        response == _determine_response(composite_score)
    IN  [kind |-> "fraud",
         risk_score |-> Round2(composite_score),
         severity |-> response.severity,
         ml_score |-> ml_score,
         rule_score |-> rule_score,
         recommended_actions |-> response.actions,
         requires_review |-> Round2(composite_score) >= Thresholds.medium * 100,
         auto_block |-> Round2(composite_score) >= Thresholds.critical * 100,
         alerts_created |-> AlertsCreated(composite_score),
         has_alert_id |-> AlertsCreated(composite_score) > 0,
         composite_score |-> composite_score]

\* Steps 2 and 4-8 of analyze_transaction: the result dict for one
\* observation, given the score the anomaly model returned.  composite_score
\* is the local of that name (unrounded); it is not a key of the dict and is
\* kept here only for the properties, as is alerts_created; the key alert_id
\* is in the dict exactly when has_alert_id is true.
AnalysisResult(amount, merchant, category, hour, ml_score) ==
    LET features == _extract_features(amount, merchant, category, hour, NoLocation,
                                      UserProfile)
        rule_score == _apply_fraud_rules(features)
        composite_score == _calculate_composite_score(ml_score, rule_score)
        response == _determine_response(composite_score)
    IN  [kind |-> "fraud",
         risk_score |-> Round2(composite_score),
         severity |-> response.severity,
         ml_score |-> ml_score,
         rule_score |-> rule_score,
         recommended_actions |-> response.actions,
         requires_review |-> composite_score >= Thresholds.medium * 1000,
         auto_block |-> composite_score >= Thresholds.critical * 1000,
         alerts_created |-> AlertsCreated(composite_score),
         has_alert_id |-> AlertsCreated(composite_score) > 0,
         composite_score |-> composite_score]


-----------------------------------------------------------------------------
(* InvoiceAgent *)

\* The keys every item of an invoice must carry.
ItemKeys == {"description", "quantity", "unit_price"}

\* _validate_invoice_data.  data.client_name is "" when absent or empty;
\* data.items is the list of items, each the set of keys it carries
\* (<<>> when the key is absent or the list is empty).
RequiredMissing(data) ==
    (IF data.client_name = "" THEN <<"client_name">> ELSE <<>>)
    \o (IF data.items = <<>> THEN <<"items">> ELSE <<>>)

_validate_invoice_data(data) ==
    LET incomplete_item ==
            \E i \in 1..Len(data.items) : ~(ItemKeys \subseteq data.items[i])
        missing_fields ==
            RequiredMissing(data)
            \o (IF data.items # <<>> /\ incomplete_item
                THEN <<"Complete item details (description, quantity, unit_price)">>
                ELSE <<>>)
    IN  [is_valid |-> Len(missing_fields) = 0, missing_fields |-> missing_fields]

\* create_invoice, from the validation on: the dict it returns.
InvoiceResult(invoice_data) ==
    LET validation_result == _validate_invoice_data(invoice_data)
    IN  IF ~validation_result.is_valid
        THEN [kind |-> "invoice", status |-> "incomplete",
              missing_fields |-> validation_result.missing_fields]
        ELSE [kind |-> "invoice", status |-> "draft", missing_fields |-> <<>>]

-----------------------------------------------------------------------------
(* Inputs of the model *)

\* self.workflows
Workflows == {"expense_processing", "invoice_creation", "fraud_detection",
              "cashflow_forecast"}

\* The workflow types a caller passes: the registered ones and another.
WorkflowTypes == Workflows \cup {"payroll"}

Priorities == {"normal"}

\* What the caller of fraud_detection passes, and what the classifier reads
\* off a receipt: amount, merchant, category.
Observations ==
    {[amount |-> <<45>>, merchant |-> "Starbucks", category |-> "Meals & Entertainment"],
     [amount |-> <<5000>>, merchant |-> "Tech Supplies Intl", category |-> "Software"]}

NoObservation == [amount |-> <<>>, merchant |-> "", category |-> ""]

\* process_receipt's result: the fields the orchestrator reads.  The amount is
\* None after a failed extraction (_classify_with_gpt4's fallback).
ClassifierOutputs ==
    { [kind |-> "expense", amount |-> o.amount, merchant |-> o.merchant,
       category |-> o.category, classification_confidence |-> cf, status |-> st,
       review_reason |-> "", fraud_analysis |-> NoResult] :
         o \in Observations \cup {[amount |-> <<>>, merchant |-> "Unknown",
                                   category |-> "Other"]},
         cf \in {85, 95},
         st \in {"approved", "pending_review"} }

\* timestamp.hour of the transaction (datetime.utcnow() when none is passed).
Hours == {2, 10}

\* The scores _ml_anomaly_detection returns, in hundredths: a draw of
\* np.random.uniform(20, 80), which lies in [20, 80), or the 50.0 of its
\* handler.  The draw is sampled at its two ends, at 50 and at the score that
\* puts a composite just below a threshold (63.33).
MlScores == {2000, 5000, 6333, 7999}

\* Anomaly scores in [0, 100], in hundredths: what _calculate_composite_score
\* takes, and what an anomaly model put in the place of the demo draw
\* ("In production, use pre-trained model", line 248) or an analyzer handed to
\* the orchestrator's constructor can return.
AnomalyScores == {0, 2000, 5000, 6333, 7999, 9666, 10000}

\* invoice_data after step 1 of create_invoice: structured_data when given,
\* else what _extract_invoice_details read from the description.
FullItem == {"description", "quantity", "unit_price"}

InvoiceDatas ==
    [client_name : {"", "Acme Corp"},
     items : {<<>>, <<FullItem>>, <<FullItem, {"description"}>>}]

Branches == {"email", "crm", "webhook"}

-----------------------------------------------------------------------------
(* WorkflowOrchestrator: state *)

IdleCall ==
    [pc |-> "idle", workflow_type |-> "", workflow_id |-> 0, priority |-> "",
     send_email |-> FALSE, webhook_url |-> FALSE, send_report |-> FALSE,
     obs |-> NoObservation,
     result |-> NoResult,        \* expense_result, invoice_result, fraud_result, forecast_result
     tasks |-> [b \in Branches |-> "skip"],  \* the gathered fan-out branches
     effects |-> <<>>,           \* the awaited side effects that finished, in order
     raised_by |-> "",           \* the awaited call whose exception ended the workflow
     hung |-> FALSE,             \* the awaited collaborator call never returns
     out |-> "none"]             \* "returned" or "raised": how execute_workflow ended

\* No call of the analyzer's functions yet.
NoCall == [op |-> "none"]

Init ==
    /\ active_workflows = << >>
    /\ call = [c \in Calls |-> IdleCall]
    /\ forecast_tasks = << >>
    /\ status_reply = NoResult
    /\ background_tasks = << >>
    /\ stop_call = << >>
    /\ analyzer = [last |-> NoCall, before |-> NoCall]

\* _generate_workflow_id: uuid4 gives an id no execution has had.  Ids are
\* numbered in the order they are drawn, so the record of id n is the n-th
\* entry of active_workflows.
_generate_workflow_id == Len(active_workflows) + 1

\* execute_workflow has ended; what it was called with, what it returned or
\* raised and what it did stay for the properties.
Finished(cl) == [cl EXCEPT !.pc = "done"]

\* Mutant of Complete: the result is stored under the id drawn first instead
\* of the id of this execution.
CompleteFirst(c, cl, result) ==
    /\ active_workflows' =
          [active_workflows EXCEPT ![1] =
              [@ EXCEPT !.status = "completed", !.result = result]]
    /\ call' = [call EXCEPT ![c] =
          [Finished(cl) EXCEPT !.result = result, !.out = "returned"]]

\* execute_workflow, lines 92-101: record the result and return it.
Complete(c, cl, result) ==
    /\ active_workflows' =
          [active_workflows EXCEPT ![cl.workflow_id] =
              [@ EXCEPT !.status = "completed", !.result = result]]
    /\ call' = [call EXCEPT ![c] =
          [Finished(cl) EXCEPT !.result = result, !.out = "returned"]]

\* Mutant of Fail: the handler records the failure and does not re-raise.
FailSwallowed(c, cl, who, error) ==
    /\ active_workflows' =
          [active_workflows EXCEPT ![cl.workflow_id] =
              [@ EXCEPT !.status = "failed", !.error = error]]
    /\ call' = [call EXCEPT ![c] =
          [Finished(cl) EXCEPT !.raised_by = who, !.out = "returned"]]

\* execute_workflow, lines 103-114: record the error and re-raise it.
Fail(c, cl, who, error) ==
    /\ active_workflows' =
          [active_workflows EXCEPT ![cl.workflow_id] =
              [@ EXCEPT !.status = "failed", !.error = error]]
    /\ call' = [call EXCEPT ![c] =
          [Finished(cl) EXCEPT !.raised_by = who, !.out = "raised"]]

-----------------------------------------------------------------------------
(* WorkflowOrchestrator.execute_workflow *)

\* The data a caller passes with each workflow type: the keys the workflow
\* reads (send_email and webhook_url of data["input"], send_report, and the
\* transaction that fraud_detection passes on to analyze_transaction).
WorkflowData(wt) ==
    [send_email : IF wt = "invoice_creation" THEN BOOLEAN ELSE {FALSE},
     webhook_url : IF wt = "invoice_creation" THEN BOOLEAN ELSE {FALSE},
     send_report : IF wt = "cashflow_forecast" THEN BOOLEAN ELSE {FALSE},
     obs : IF wt = "fraud_detection" THEN Observations ELSE {NoObservation}]

\* Mutant of Register: the record is written in a state "pending".
RegisterPending(c) ==
    /\ call[c].pc = "idle"
    /\ \E wt \in WorkflowTypes, pr \in Priorities :
          \E data \in WorkflowData(wt) :
             /\ active_workflows' = Append(active_workflows,
                    [workflow_type |-> wt, status |-> "pending", priority |-> pr,
                     result |-> NoResult, error |-> ""])
             /\ call' = [call EXCEPT ![c] =
                    [IdleCall EXCEPT !.pc = "lookup", !.workflow_type = wt,
                        !.workflow_id = _generate_workflow_id, !.priority = pr,
                        !.send_email = data.send_email,
                        !.webhook_url = data.webhook_url,
                        !.send_report = data.send_report, !.obs = data.obs]]
    /\ UNCHANGED forecast_tasks
    /\ UNCHANGED outside_workflows

\* Lines 71-82: a caller enters execute_workflow; the record is written.
Register(c) ==
    /\ call[c].pc = "idle"
    /\ \E wt \in WorkflowTypes, pr \in Priorities :
          \E data \in WorkflowData(wt) :
             LET workflow_id == _generate_workflow_id
             IN  /\ active_workflows' = Append(active_workflows,
                        [workflow_type |-> wt, status |-> "running",
                         priority |-> pr, result |-> NoResult, error |-> ""])
                 /\ call' = [call EXCEPT ![c] =
                        [IdleCall EXCEPT !.pc = "lookup", !.workflow_type = wt,
                            !.workflow_id = workflow_id, !.priority = pr,
                            !.send_email = data.send_email,
                            !.webhook_url = data.webhook_url,
                            !.send_report = data.send_report, !.obs = data.obs]]
    /\ UNCHANGED forecast_tasks
    /\ UNCHANGED outside_workflows

\* Lines 84-90: the workflow function is looked up; an unknown type raises
\* ValueError, a known one runs to its first await.
FirstAwait(wt) ==
    CASE wt = "expense_processing" -> "read"
      [] wt = "invoice_creation" -> "create_invoice"
      [] wt = "fraud_detection" -> "analyze"
      [] wt = "cashflow_forecast" -> "generate_forecast"

Lookup(c) ==
    /\ call[c].pc = "lookup"
    /\ IF call[c].workflow_type \notin Workflows
       THEN Fail(c, call[c], "", "Unknown workflow type")
       ELSE /\ call' = [call EXCEPT ![c].pc = FirstAwait(call[c].workflow_type)]
            /\ UNCHANGED active_workflows
    /\ UNCHANGED forecast_tasks
    /\ UNCHANGED outside_workflows

\* The execution awaits a method of one of the injected agents:
\* process_receipt, analyze_transaction, create_invoice, generate_forecast,
\* or send_invoice, which is awaited through the gather.
AwaitsCollaborator(cl) ==
    \/ cl.pc \in {"classify", "expense_analyze", "create_invoice", "analyze",
                  "generate_forecast"}
    \/ (cl.pc = "gather" /\ cl.tasks["email"] = "run")

\* The execution awaits something outside the orchestrator: an agent, or the
\* uploaded file (file.read(), line 135).
AwaitsExternal(cl) == AwaitsCollaborator(cl) \/ cl.pc = "read"

\* The awaited call never returns; no await of the orchestrator has a timeout.
CollaboratorHangs(c) ==
    /\ AwaitsExternal(call[c])
    /\ ~call[c].hung
    /\ call' = [call EXCEPT ![c].hung = TRUE]
    /\ UNCHANGED <<active_workflows, forecast_tasks>>
    /\ UNCHANGED outside_workflows

\* The awaits of execute_workflow: line 90 awaits the workflow function,
\* which is suspended at one of its own awaits.
AwaitsAnything(cl) ==
    cl.pc \in {"read", "classify", "expense_analyze", "create_invoice", "gather",
               "analyze", "block", "alert", "generate_forecast", "dashboard",
               "report"}

\* The task running execute_workflow is cancelled while it is suspended at
\* the gather of line 240 and a gathered coroutine still runs: the gather
\* passes the cancellation on, and the coroutines that still run end
\* cancelled.  execute_workflow stays suspended at the gather until the next
\* iteration of the loop (ExecutionCancelled).
GatherCancelled(c) ==
    /\ call[c].pc = "gather"
    /\ \E b \in Branches : call[c].tasks[b] = "run"
    /\ call' = [call EXCEPT ![c].tasks =
          [b \in Branches |->
              IF call[c].tasks[b] = "run" THEN "cancelled" ELSE call[c].tasks[b]]]
    /\ UNCHANGED <<active_workflows, forecast_tasks>>
    /\ UNCHANGED outside_workflows

\* The task running execute_workflow is cancelled while it is suspended:
\* CancelledError is raised at the await (at the gather, once no gathered
\* coroutine runs any more).  It is a BaseException, so the handler of line
\* 103 (except Exception) does not run: the error leaves execute_workflow and
\* the record is left as it was written at line 77.
ExecutionCancelled(c) ==
    /\ AwaitsAnything(call[c])
    /\ call[c].pc = "gather" => \A b \in Branches : call[c].tasks[b] # "run"
    /\ call' = [call EXCEPT ![c] = [Finished(call[c]) EXCEPT !.out = "cancelled"]]
    /\ UNCHANGED <<active_workflows, forecast_tasks>>
    /\ UNCHANGED outside_workflows

-----------------------------------------------------------------------------
(* _expense_processing_workflow *)

\* Lines 158-185: the review decision, and the detached forecast update.
needs_review(expense_result, fraud_result) ==
    \/ expense_result.classification_confidence < 90
    \/ (fraud_result # NoResult /\ fraud_result.risk_score >= 70 * 100)

\* Mutant of review_reason: a high fraud risk is named before the confidence.
review_reason_risk_first(expense_result) ==
    IF /\ expense_result.fraud_analysis # NoResult
       /\ expense_result.fraud_analysis.risk_score >= 70 * 100
    THEN "High fraud risk detected"
    ELSE "Low classification confidence"

review_reason(expense_result) ==
    IF expense_result.classification_confidence < 90
    THEN "Low classification confidence"
    ELSE "High fraud risk detected"

\* Mutant of Decide: the forecast update is triggered on both branches.
DecideSchedulesAlways(c, cl, expense_result, fraud_result) ==
    /\ forecast_tasks' = Append(forecast_tasks,
          [workflow_id |-> cl.workflow_id, state |-> "pending"])
    /\ IF needs_review(expense_result, fraud_result)
       THEN Complete(c, cl, [expense_result EXCEPT !.status = "pending_review",
                                !.review_reason = review_reason(expense_result)])
       ELSE Complete(c, cl, [expense_result EXCEPT !.status = "approved"])

Decide(c, cl, expense_result, fraud_result) ==
    IF needs_review(expense_result, fraud_result)
    THEN /\ Complete(c, cl, [expense_result EXCEPT !.status = "pending_review",
                                !.review_reason = review_reason(expense_result)])
         /\ UNCHANGED forecast_tasks
    ELSE /\ Complete(c, cl, [expense_result EXCEPT !.status = "approved"])
         /\ forecast_tasks' = Append(forecast_tasks,
                [workflow_id |-> cl.workflow_id, state |-> "pending"])

\* Line 135: file.read() returns the content of the upload.
FileReadReturns(c) ==
    /\ call[c].pc = "read"
    /\ ~call[c].hung
    /\ call' = [call EXCEPT ![c].pc = "classify"]
    /\ UNCHANGED <<active_workflows, forecast_tasks>>
    /\ UNCHANGED outside_workflows

\* Line 135: file.read() raises; process_receipt is not called.
FileReadRaises(c) ==
    /\ call[c].pc = "read"
    /\ ~call[c].hung
    /\ Fail(c, call[c], "file.read", "read failed")
    /\ UNCHANGED forecast_tasks
    /\ UNCHANGED outside_workflows

\* Lines 137-156: process_receipt returns.
ClassifyReturn(c) ==
    /\ call[c].pc = "classify"
    /\ ~call[c].hung
    /\ \E expense_result \in ClassifierOutputs :
          IF expense_result.amount = <<>>
          THEN \* None > 100 raises TypeError
               /\ Fail(c, call[c], "", "TypeError")
               /\ UNCHANGED forecast_tasks
          ELSE IF expense_result.amount[1] > 100
          THEN /\ call' = [call EXCEPT ![c].pc = "expense_analyze",
                                       ![c].result = expense_result]
               /\ UNCHANGED <<active_workflows, forecast_tasks>>
          ELSE Decide(c, call[c], expense_result, NoResult)
    /\ UNCHANGED outside_workflows

ClassifyRaise(c) ==
    /\ call[c].pc = "classify"
    /\ ~call[c].hung
    /\ Fail(c, call[c], "process_receipt", "process_receipt failed")
    /\ UNCHANGED forecast_tasks
    /\ UNCHANGED outside_workflows

\* Lines 148-185: analyze_transaction returns an analysis whose anomaly
\* score is one of scores.
ExpenseAnalyzeReturnFrom(c, scores) ==
    /\ call[c].pc = "expense_analyze"
    /\ ~call[c].hung
    /\ \E hour \in Hours, ml_score \in scores :
          LET expense_result == call[c].result
              fraud_result == AnalysisResult(expense_result.amount,
                                  expense_result.merchant, expense_result.category,
                                  hour, ml_score)
          IN  Decide(c, call[c],
                     [expense_result EXCEPT !.fraud_analysis = fraud_result],
                     fraud_result)
    /\ UNCHANGED outside_workflows

\* analyze_transaction of the analyzer in src returns.
ExpenseAnalyzeReturn(c) == ExpenseAnalyzeReturnFrom(c, MlScores)

\* analyze_transaction returns with an anomaly model that scores in [0, 100].
ExpenseAnalyzeReturnInjected(c) == ExpenseAnalyzeReturnFrom(c, AnomalyScores)

ExpenseAnalyzeRaise(c) ==
    /\ call[c].pc = "expense_analyze"
    /\ ~call[c].hung
    /\ Fail(c, call[c], "analyze_transaction", "analyze_transaction failed")
    /\ UNCHANGED forecast_tasks
    /\ UNCHANGED outside_workflows

\* Mutant of ForecastUpdateEnds: a failed update marks its execution failed.
ForecastUpdateReported(i) ==
    /\ forecast_tasks[i].state = "pending"
    /\ \E st \in {"done", "failed"} :
          /\ forecast_tasks' = [forecast_tasks EXCEPT ![i].state = st]
          /\ active_workflows' =
                IF st = "failed"
                THEN [active_workflows EXCEPT ![forecast_tasks[i].workflow_id] =
                         [@ EXCEPT !.status = "failed", !.error = "forecast update failed"]]
                ELSE active_workflows
    /\ UNCHANGED call
    /\ UNCHANGED outside_workflows

\* The detached incremental_update task ends: it returns, or it raises and
\* the exception stays in the task, which nothing awaits.
ForecastUpdateEnds(i) ==
    /\ forecast_tasks[i].state = "pending"
    /\ \E st \in {"done", "failed"} :
          forecast_tasks' = [forecast_tasks EXCEPT ![i].state = st]
    /\ UNCHANGED <<active_workflows, call>>
    /\ UNCHANGED outside_workflows

-----------------------------------------------------------------------------
(* _invoice_creation_workflow *)

\* Lines 216-236: the coroutines handed to asyncio.gather.
FanOut(cl) ==
    [b \in Branches |->
        IF \/ b = "crm"
           \/ (b = "email" /\ cl.send_email)
           \/ (b = "webhook" /\ cl.webhook_url)
        THEN "run" ELSE "skip"]

\* Mutant of CreateInvoiceReturn: the incomplete status is not checked.
CreateInvoiceFansOutAlways(c) ==
    /\ call[c].pc = "create_invoice"
    /\ ~call[c].hung
    /\ \E invoice_data \in InvoiceDatas :
          call' = [call EXCEPT ![c].pc = "gather",
                               ![c].result = InvoiceResult(invoice_data),
                               ![c].tasks = FanOut(call[c])]
    /\ UNCHANGED <<active_workflows, forecast_tasks>>
    /\ UNCHANGED outside_workflows

\* Lines 206-240: create_invoice returns.
CreateInvoiceReturn(c) ==
    /\ call[c].pc = "create_invoice"
    /\ ~call[c].hung
    /\ \E invoice_data \in InvoiceDatas :
          LET invoice_result == InvoiceResult(invoice_data)
          IN  IF invoice_result.status = "incomplete"
              THEN Complete(c, call[c], invoice_result)
              ELSE /\ call' = [call EXCEPT ![c].pc = "gather",
                                           ![c].result = invoice_result,
                                           ![c].tasks = FanOut(call[c])]
                   /\ UNCHANGED active_workflows
    /\ UNCHANGED forecast_tasks
    /\ UNCHANGED outside_workflows

CreateInvoiceRaise(c) ==
    /\ call[c].pc = "create_invoice"
    /\ ~call[c].hung
    /\ Fail(c, call[c], "create_invoice", "create_invoice failed")
    /\ UNCHANGED forecast_tasks
    /\ UNCHANGED outside_workflows

\* One gathered coroutine (send_invoice, _update_crm, _trigger_webhook) ends:
\* it returns, or it raises and gather keeps the exception as its result.
BranchEnds(c, b) ==
    /\ call[c].pc = "gather"
    /\ call[c].tasks[b] = "run"
    /\ ~(b = "email" /\ call[c].hung)
    /\ \E st \in {"ok", "err"} :
          call' = [call EXCEPT ![c].tasks[b] = st]
    /\ UNCHANGED <<active_workflows, forecast_tasks>>
    /\ UNCHANGED outside_workflows

\* Mutant of GatherReturns: gather without return_exceptions raises the first
\* exception of a branch.
GatherRaises(c) ==
    /\ call[c].pc = "gather"
    /\ IF \E b \in Branches : call[c].tasks[b] = "err"
       THEN Fail(c, call[c], "gather", "branch failed")
       ELSE /\ \A b \in Branches : call[c].tasks[b] # "run"
            /\ Complete(c, call[c], call[c].result)
    /\ UNCHANGED forecast_tasks
    /\ UNCHANGED outside_workflows

\* Mutant of GatherReturns: the workflow returns without awaiting the gather.
GatherNotAwaited(c) ==
    /\ call[c].pc = "gather"
    /\ Complete(c, call[c], call[c].result)
    /\ UNCHANGED forecast_tasks
    /\ UNCHANGED outside_workflows

\* Lines 240-242: gather(return_exceptions=True) returns once every
\* coroutine has ended; the workflow returns invoice_result.  A gather that
\* was cancelled does not return: it raises CancelledError.
GatherReturns(c) ==
    /\ call[c].pc = "gather"
    /\ \A b \in Branches : call[c].tasks[b] \notin {"run", "cancelled"}
    /\ Complete(c, call[c], call[c].result)
    /\ UNCHANGED forecast_tasks
    /\ UNCHANGED outside_workflows

-----------------------------------------------------------------------------
(* _fraud_detection_workflow *)

\* Lines 259-274: analyze_transaction(**data) returns an analysis whose
\* anomaly score is one of scores.
AnalyzeReturnFrom(c, scores) ==
    /\ call[c].pc = "analyze"
    /\ ~call[c].hung
    /\ \E hour \in Hours, ml_score \in scores :
          LET fraud_result == AnalysisResult(call[c].obs.amount, call[c].obs.merchant,
                                  call[c].obs.category, hour, ml_score)
          IN  IF fraud_result.risk_score >= 90 * 100
              THEN /\ call' = [call EXCEPT ![c].pc = "block",
                                           ![c].result = fraud_result]
                   /\ UNCHANGED active_workflows
              ELSE Complete(c, call[c], fraud_result)
    /\ UNCHANGED forecast_tasks
    /\ UNCHANGED outside_workflows

\* analyze_transaction of the analyzer in src returns.
AnalyzeReturn(c) == AnalyzeReturnFrom(c, MlScores)

\* analyze_transaction returns with an anomaly model that scores in [0, 100].
AnalyzeReturnInjected(c) == AnalyzeReturnFrom(c, AnomalyScores)

AnalyzeRaise(c) ==
    /\ call[c].pc = "analyze"
    /\ ~call[c].hung
    /\ Fail(c, call[c], "analyze_transaction", "analyze_transaction failed")
    /\ UNCHANGED forecast_tasks
    /\ UNCHANGED outside_workflows

\* The side effects _block_transaction, _send_fraud_alert, _update_dashboard
\* and _send_forecast_report are methods of the orchestrator: a sleep and a
\* log line, which return.

\* Line 266: _block_transaction returns.  The workflow gets here only with a
\* risk_score of 90 or more, which needs an anomaly score above 80: this step
\* and the next are taken under InjectedAnalyzerSpec.
BlockReturns(c) ==
    /\ call[c].pc = "block"
    /\ call' = [call EXCEPT ![c].pc = "alert",
                            ![c].effects = Append(@, "block")]
    /\ UNCHANGED <<active_workflows, forecast_tasks>>
    /\ UNCHANGED outside_workflows

\* Lines 269-274: _send_fraud_alert returns; the workflow returns fraud_result.
AlertReturns(c) ==
    /\ call[c].pc = "alert"
    /\ Complete(c, [call[c] EXCEPT !.effects = Append(@, "alert")], call[c].result)
    /\ UNCHANGED forecast_tasks
    /\ UNCHANGED outside_workflows

-----------------------------------------------------------------------------
(* _cashflow_forecast_workflow *)

ForecastResult == [kind |-> "forecast"]

\* Line 294: generate_forecast returns.
GenerateForecastReturn(c) ==
    /\ call[c].pc = "generate_forecast"
    /\ ~call[c].hung
    /\ call' = [call EXCEPT ![c].pc = "dashboard", ![c].result = ForecastResult]
    /\ UNCHANGED <<active_workflows, forecast_tasks>>
    /\ UNCHANGED outside_workflows

GenerateForecastRaise(c) ==
    /\ call[c].pc = "generate_forecast"
    /\ ~call[c].hung
    /\ Fail(c, call[c], "generate_forecast", "generate_forecast failed")
    /\ UNCHANGED forecast_tasks
    /\ UNCHANGED outside_workflows

\* Lines 297-303: _update_dashboard returns.
DashboardReturns(c) ==
    /\ call[c].pc = "dashboard"
    /\ LET cl == [call[c] EXCEPT !.effects = Append(@, "dashboard")]
       IN  IF cl.send_report
           THEN /\ call' = [call EXCEPT ![c] = [cl EXCEPT !.pc = "report"]]
                /\ UNCHANGED active_workflows
           ELSE Complete(c, cl, cl.result)
    /\ UNCHANGED forecast_tasks
    /\ UNCHANGED outside_workflows

\* Lines 301-303: _send_forecast_report returns.
ReportReturns(c) ==
    /\ call[c].pc = "report"
    /\ Complete(c, [call[c] EXCEPT !.effects = Append(@, "report")], call[c].result)
    /\ UNCHANGED forecast_tasks
    /\ UNCHANGED outside_workflows

-----------------------------------------------------------------------------
(* get_workflow_status *)

\* The ids a caller asks about: those execute_workflow can have created and
\* one it has not.
WorkflowIds == 1..(MaxCalls + 1)

\* Mutant of get_workflow_status: an execution still running is not found.
get_workflow_status_finished(workflow_id) ==
    IF \/ workflow_id \notin DOMAIN active_workflows
       \/ active_workflows[workflow_id].status = "running"
    THEN [workflow_id |-> workflow_id, status |-> "not_found"]
    ELSE ("workflow_id" :> workflow_id) @@ active_workflows[workflow_id]

\* Lines 305-318: the dict returned for workflow_id, the stored record with
\* the id added.  A stored record is never an empty dict, so "not workflow"
\* is the absence of the id.
get_workflow_status(workflow_id) ==
    IF workflow_id \notin DOMAIN active_workflows
    THEN [workflow_id |-> workflow_id, status |-> "not_found"]
    ELSE ("workflow_id" :> workflow_id) @@ active_workflows[workflow_id]

\* A caller asks for the status of an id; the call has no await.
GetWorkflowStatus ==
    /\ \E workflow_id \in WorkflowIds :
          status_reply' = get_workflow_status(workflow_id)
    /\ UNCHANGED <<workflow_vars, background_tasks, stop_call, analyzer>>

-----------------------------------------------------------------------------
(* Background tasks *)

\* The coroutines start_background_tasks makes tasks of, in its order.
BackgroundTaskNames == <<"_daily_forecast_task", "_fraud_monitoring_task">>

\* A task asyncio.create_task has just scheduled: its coroutine has not run.
NewTask(name) == [name |-> name, state |-> "created", must_cancel |-> FALSE]

\* A task that has ended: its coroutine returned, or CancelledError left it.
TaskDone(task) == task.state \in {"returned", "cancelled"}

\* Lines 320-332: start_background_tasks has no await, it runs in one step.
StartBackgroundTasks ==
    /\ Len(background_tasks) < Len(BackgroundTaskNames) * MaxStarts
    /\ background_tasks' = background_tasks
            \o [k \in DOMAIN BackgroundTaskNames |-> NewTask(BackgroundTaskNames[k])]
    /\ UNCHANGED <<workflow_vars, status_reply, stop_call, analyzer>>

\* task.cancel(): a request the task sees at its next step; a task that has
\* ended is left as it is.
cancel(task) == IF TaskDone(task) THEN task ELSE [task EXCEPT !.must_cancel = TRUE]

\* Lines 334-341, up to the await: every task of the list is cancelled and
\* gather is handed the tasks the list holds now.  Nothing keeps a second
\* invocation from running while an earlier one awaits its gather.  gather
\* of no task is a future that is done already: the await does not suspend
\* and the invocation returns in the same step.
StopBackgroundTasks ==
    /\ Len(stop_call) < MaxStops
    /\ background_tasks' = [i \in DOMAIN background_tasks |-> cancel(background_tasks[i])]
    /\ stop_call' = Append(stop_call,
            [pc |-> IF background_tasks = << >> THEN "returned" ELSE "gather",
             gathered |-> DOMAIN background_tasks])
    /\ UNCHANGED <<workflow_vars, status_reply, analyzer>>

\* Line 341: gather(return_exceptions=True) of invocation s returns once
\* every task it was handed has ended.
StopReturns(s) ==
    /\ s \in DOMAIN stop_call
    /\ stop_call[s].pc = "gather"
    /\ \A i \in stop_call[s].gathered : TaskDone(background_tasks[i])
    /\ stop_call' = [stop_call EXCEPT ![s].pc = "returned"]
    /\ UNCHANGED <<workflow_vars, status_reply, background_tasks, analyzer>>

\* Mutant of BackgroundTaskStep: the loop's handler swallows CancelledError
\* and goes on sleeping.
BackgroundTaskIgnoresCancel(i) ==
    /\ i \in DOMAIN background_tasks
    /\ ~TaskDone(background_tasks[i])
    /\ background_tasks[i].state = "created" \/ background_tasks[i].must_cancel
    /\ background_tasks' = [background_tasks EXCEPT ![i] =
            [@ EXCEPT !.state = "sleeping", !.must_cancel = FALSE]]
    /\ UNCHANGED <<workflow_vars, status_reply, stop_call, analyzer>>

\* Lines 343-369: one step of _daily_forecast_task or _fraud_monitoring_task.
\* A new task enters the loop and sleeps; a cancelled task gets CancelledError
\* where it is suspended: before its first line, which ends it cancelled, or
\* at the sleep inside the try, where the handler breaks out of the loop.
BackgroundTaskStep(i) ==
    /\ i \in DOMAIN background_tasks
    /\ ~TaskDone(background_tasks[i])
    /\ background_tasks[i].state = "created" \/ background_tasks[i].must_cancel
    /\ background_tasks' = [background_tasks EXCEPT ![i] =
            IF ~@.must_cancel
            THEN [@ EXCEPT !.state = "sleeping"]
            ELSE [@ EXCEPT !.state = IF @ = "created" THEN "cancelled" ELSE "returned",
                           !.must_cancel = FALSE]]
    /\ UNCHANGED <<workflow_vars, status_reply, stop_call, analyzer>>

\* The sleep of a task ends: it logs and goes round the loop to sleep again.
BackgroundTaskWakes(i) ==
    /\ i \in DOMAIN background_tasks
    /\ background_tasks[i].state = "sleeping"
    /\ ~background_tasks[i].must_cancel
    /\ UNCHANGED vars

-----------------------------------------------------------------------------
(* Calls of FraudAnalyzerAgent's functions *)

\* Feature vectors with the values around each rule's threshold; the
\* features no rule reads are at zero.
FeatureVectors ==
    [amount_zscore : {0},
     large_amount : {0, 1000},
     merchant_novelty : {0, 500, 800, 1000},
     category_mismatch : {0},
     off_hours : {0, 500, 800},
     velocity_1h : {200, 500, 600},
     velocity_24h : {100},
     location_distance : {100, 700, 800}]

\* _apply_fraud_rules is called on a feature vector.
ApplyFraudRules ==
    /\ \E features \in FeatureVectors :
          analyzer' = [last |-> [op |-> "_apply_fraud_rules", features |-> features,
                                 rule_score |-> _apply_fraud_rules(features)],
                       before |-> NoCall]
    /\ UNCHANGED <<workflow_vars, status_reply, background_tasks, stop_call>>

\* Rule scores in [0, 100]: every sum of rule points is a multiple of 5.
RuleScores == {r \in 0..100 : r % 5 = 0}

\* _calculate_composite_score is called on a pair of scores.
CalculateCompositeScore ==
    /\ \E ml_score \in AnomalyScores, rule_score \in RuleScores :
          analyzer' = [last |-> [op |-> "_calculate_composite_score",
                                 ml_score |-> ml_score, rule_score |-> rule_score,
                                 composite |-> _calculate_composite_score(ml_score,
                                                                         rule_score)],
                       before |-> NoCall]
    /\ UNCHANGED <<workflow_vars, status_reply, background_tasks, stop_call>>

\* Composite scores, in thousandths: every pair of scores above, which
\* reaches each threshold and the values just below it.
CompositeScores ==
    {_calculate_composite_score(ml_score, rule_score) :
        ml_score \in AnomalyScores, rule_score \in RuleScores}

\* _determine_response is called on a composite score.
DetermineResponse ==
    /\ \E risk_score \in CompositeScores :
          analyzer' = [last |-> [op |-> "_determine_response",
                                 risk_score |-> risk_score,
                                 response |-> _determine_response(risk_score)],
                       before |-> NoCall]
    /\ UNCHANGED <<workflow_vars, status_reply, background_tasks, stop_call>>

\* What _extract_features is called on: amounts absent, zero, negative, small,
\* at and just above avg + 3 * std of the stored profile, and large; merchants
\* and categories absent, known and unknown; a location absent or present;
\* profiles with the average or the deviation at zero.
Amounts == {<<>>, <<0>>, <<-10>>, <<45>>, <<700>>, <<701>>, <<5000>>}

Merchants == {"", "Starbucks", "Tech Supplies Intl"}

Categories == {"", "Travel", "Software"}

Locations == {NoLocation, <<"Lahore">>}

Profiles ==
    {[UserProfile EXCEPT !.avg_transaction = avg, !.std_transaction = std] :
        avg \in {0, UserProfile.avg_transaction},
        std \in {0, UserProfile.std_transaction}}

\* _extract_features is called on an observation and a profile.
ExtractFeatures ==
    /\ \E amount \in Amounts, merchant \in Merchants, category \in Categories,
          hour \in Hours, location \in Locations, user_profile \in Profiles :
          analyzer' =
             [last |-> [op |-> "_extract_features", amount |-> amount,
                        merchant |-> merchant, category |-> category, hour |-> hour,
                        location |-> location, user_profile |-> user_profile,
                        features |-> _extract_features(amount, merchant, category,
                                                       hour, location, user_profile)],
              before |-> NoCall]
    /\ UNCHANGED <<workflow_vars, status_reply, background_tasks, stop_call>>

\* analyze_transaction is called on an observation; the anomaly model returns
\* one of scores.  The call before is kept when it was an analysis too.
AnalyzeTransactionFrom(scores) ==
    /\ \E obs \in Observations \cup {NoObservation}, hour \in Hours,
          ml_score \in scores :
          analyzer' =
             [last |-> [op |-> "analyze_transaction", obs |-> obs, hour |-> hour,
                        result |-> AnalysisResult(obs.amount, obs.merchant,
                                                  obs.category, hour, ml_score)],
              before |-> IF analyzer.last.op = "analyze_transaction"
                         THEN analyzer.last ELSE NoCall]
    /\ UNCHANGED <<workflow_vars, status_reply, background_tasks, stop_call>>

\* analyze_transaction with the anomaly scorer of src.
AnalyzeTransaction == AnalyzeTransactionFrom(MlScores)

\* analyze_transaction with an anomaly model that scores in [0, 100].
AnalyzeTransactionInjected == AnalyzeTransactionFrom(AnomalyScores)

-----------------------------------------------------------------------------
(* The system *)

Next ==
    \/ \E c \in DOMAIN call : Register(c)
    \/ \E c \in DOMAIN call : Lookup(c)
    \/ \E c \in DOMAIN call : CollaboratorHangs(c)
    \/ \E c \in DOMAIN call : FileReadReturns(c)
    \/ \E c \in DOMAIN call : FileReadRaises(c)
    \/ \E c \in DOMAIN call : ClassifyReturn(c)
    \/ \E c \in DOMAIN call : ClassifyRaise(c)
    \/ \E c \in DOMAIN call : ExpenseAnalyzeReturn(c)
    \/ \E c \in DOMAIN call : ExpenseAnalyzeRaise(c)
    \/ \E i \in DOMAIN forecast_tasks : ForecastUpdateEnds(i)
    \/ \E c \in DOMAIN call : CreateInvoiceReturn(c)
    \/ \E c \in DOMAIN call : CreateInvoiceRaise(c)
    \/ \E c \in DOMAIN call, b \in Branches : BranchEnds(c, b)
    \/ \E c \in DOMAIN call : GatherReturns(c)
    \/ \E c \in DOMAIN call : AnalyzeReturn(c)
    \/ \E c \in DOMAIN call : AnalyzeRaise(c)
    \/ \E c \in DOMAIN call : GenerateForecastReturn(c)
    \/ \E c \in DOMAIN call : GenerateForecastRaise(c)
    \/ \E c \in DOMAIN call : DashboardReturns(c)
    \/ \E c \in DOMAIN call : ReportReturns(c)

Spec == Init /\ [][Next]_vars

\* The steps of execution c that the event loop or the awaited call itself
\* brings about: the code up to the first await, and the end of an awaited
\* call that has not hung.  Not among them: a caller entering
\* execute_workflow, a call starting to hang, and the end of the detached
\* forecast update, which nothing awaits.
ExecutionStep(c) ==
    \/ Lookup(c)
    \/ FileReadReturns(c)
    \/ FileReadRaises(c)
    \/ ClassifyReturn(c)
    \/ ClassifyRaise(c)
    \/ ExpenseAnalyzeReturn(c)
    \/ ExpenseAnalyzeRaise(c)
    \/ CreateInvoiceReturn(c)
    \/ CreateInvoiceRaise(c)
    \/ \E b \in Branches : BranchEnds(c, b)
    \/ GatherReturns(c)
    \/ AnalyzeReturn(c)
    \/ AnalyzeRaise(c)
    \/ GenerateForecastReturn(c)
    \/ GenerateForecastRaise(c)
    \/ BlockReturns(c)
    \/ AlertReturns(c)
    \/ DashboardReturns(c)
    \/ ReportReturns(c)

FairSpec == Spec /\ \A c \in Calls : WF_vars(ExecutionStep(c))

\* One execution more than MaxCalls, so that an execution always has another
\* one to interleave with.
InterleavedInit ==
    /\ active_workflows = << >>
    /\ call = [c \in 1..(MaxCalls + 1) |-> IdleCall]
    /\ forecast_tasks = << >>
    /\ status_reply = NoResult
    /\ background_tasks = << >>
    /\ stop_call = << >>
    /\ analyzer = [last |-> NoCall, before |-> NoCall]

InterleavedSpec == InterleavedInit /\ [][Next]_vars

\* The functions of the fraud analyzer, called one after another.
AnalyzerNext ==
    \/ ApplyFraudRules
    \/ CalculateCompositeScore
    \/ ExtractFeatures
    \/ DetermineResponse
    \/ AnalyzeTransaction
    \/ AnalyzeTransactionInjected

AnalyzerSpec == Init /\ [][AnalyzerNext]_vars

\* The executions together with the status queries made while they run.
StatusNext ==
    \/ Next
    \/ GetWorkflowStatus

StatusSpec == Init /\ [][StatusNext]_vars

\* The executions of an orchestrator whose analyzer scores anomalies over the
\* whole range [0, 100]: fraud_detection can get a risk_score of 90 or more
\* and run the block and the alert, and expense_processing can get an
\* analysis of any severity.
InjectedAnalyzerNext ==
    \/ Next
    \/ \E c \in DOMAIN call : ExpenseAnalyzeReturnInjected(c)
    \/ \E c \in DOMAIN call : AnalyzeReturnInjected(c)
    \/ \E c \in DOMAIN call : BlockReturns(c)
    \/ \E c \in DOMAIN call : AlertReturns(c)

InjectedAnalyzerSpec == Init /\ [][InjectedAnalyzerNext]_vars

\* The executions together with the cancellation of the tasks that run them
\* (a request handler whose client went away, a shutdown of the server).
CancelNext ==
    \/ Next
    \/ \E c \in DOMAIN call : GatherCancelled(c)
    \/ \E c \in DOMAIN call : ExecutionCancelled(c)

CancelSpec == Init /\ [][CancelNext]_vars

\* The executions together with the background tasks and their start and stop.
BackgroundNext ==
    \/ Next
    \/ StartBackgroundTasks
    \/ StopBackgroundTasks
    \/ \E s \in DOMAIN stop_call : StopReturns(s)
    \/ \E i \in DOMAIN background_tasks : BackgroundTaskStep(i)
    \/ \E i \in DOMAIN background_tasks : BackgroundTaskWakes(i)

\* The event loop runs every task that is ready: a background task that has a
\* step to take takes it, and a gather whose tasks have ended returns.
BackgroundSpec ==
    /\ Init
    /\ [][BackgroundNext]_vars
    /\ \A i \in 1..(Len(BackgroundTaskNames) * MaxStarts) : WF_vars(BackgroundTaskStep(i))
    /\ \A s \in 1..MaxStops : WF_vars(StopReturns(s))

-----------------------------------------------------------------------------
(* Properties *)

Terminal == {"completed", "failed"}

Record(c) == active_workflows[call[c].workflow_id]

TasksOf(workflow_id) ==
    {i \in DOMAIN forecast_tasks : forecast_tasks[i].workflow_id = workflow_id}

\* C1: every execution record starts in state running and changes state at
\* most once, to completed or to failed; once it is completed or failed no
\* later step of any operation changes its state, result or error (and no
\* record is ever removed).
C1_TerminalIsFinal ==
    [][/\ \A id \in DOMAIN active_workflows' \ DOMAIN active_workflows :
             active_workflows'[id].status = "running"
       /\ \A id \in DOMAIN active_workflows :
             /\ id \in DOMAIN active_workflows'
             /\ active_workflows'[id].status \in {"running"} \cup Terminal
             /\ active_workflows[id].status \in Terminal
                   => active_workflows'[id] = active_workflows[id]
             /\ active_workflows'[id].status = "running"
                   => active_workflows'[id] = active_workflows[id]]_vars

\* A detached forecast update has ended after its execution completed.
C1_Witness ==
    \E i \in DOMAIN forecast_tasks :
        /\ forecast_tasks[i].state = "done"
        /\ active_workflows[forecast_tasks[i].workflow_id].status = "completed"

\* C2: execute_workflow called with an unregistered workflow type raises and
\* creates no state: the registry holds no record of that call.
C2_UnknownTypeCreatesNoState ==
    \A c \in DOMAIN call :
        (call[c].pc = "done" /\ call[c].workflow_type \notin Workflows)
            => /\ call[c].out = "raised"
               /\ \A id \in DOMAIN active_workflows :
                     active_workflows[id].workflow_type \in Workflows

\* C3: when a critical-path collaborator call raises, execute_workflow raises,
\* the record ends failed with the error text, and no later step of the
\* workflow has run: no fraud analysis, fan-out, side effect or forecast update.
CriticalCollaborators ==
    {"process_receipt", "create_invoice", "analyze_transaction", "generate_forecast"}

C3_CriticalFailureAborts ==
    \A c \in DOMAIN call :
        call[c].raised_by \in CriticalCollaborators
            => /\ call[c].pc = "done"
               /\ call[c].out = "raised"
               /\ Record(c).status = "failed"
               /\ Record(c).error # ""
               /\ Record(c).result = NoResult
               /\ call[c].effects = <<>>
               /\ \A b \in Branches : call[c].tasks[b] = "skip"
               /\ TasksOf(call[c].workflow_id) = {}
               /\ call[c].result # NoResult
                     => /\ call[c].result.kind = "expense"
                        /\ call[c].result.fraud_analysis = NoResult

\* analyze_transaction raised inside expense_processing.
C3_Witness ==
    \E c \in DOMAIN call :
        /\ call[c].raised_by = "analyze_transaction"
        /\ call[c].workflow_type = "expense_processing"
        /\ Record(c).status = "failed"

\* C4: in invoice_creation with a complete invoice, whichever fan-out branches
\* fail, execute_workflow does not raise and the record never fails; when it
\* has returned, every branch that was started has ended, the result is the
\* invoice with the status create_invoice gave it, and the record is completed.
C4_FanOutFailuresIsolated ==
    \A c \in DOMAIN call :
        (/\ call[c].workflow_type = "invoice_creation"
         /\ call[c].result # NoResult
         /\ call[c].result.status # "incomplete")
            => /\ call[c].out # "raised"
               /\ Record(c).status # "failed"
               /\ call[c].tasks["crm"] # "skip"
               /\ call[c].tasks["email"] # "skip" <=> call[c].send_email
               /\ call[c].tasks["webhook"] # "skip" <=> call[c].webhook_url
               /\ call[c].pc = "done"
                     => /\ call[c].out = "returned"
                        /\ \A b \in Branches : call[c].tasks[b] \in {"skip", "ok", "err"}
                        /\ call[c].result = InvoiceResult([client_name |-> "Acme Corp",
                                                           items |-> <<FullItem>>])
                        /\ Record(c).status = "completed"
                        /\ Record(c).result = call[c].result

\* All three branches failed and the workflow returned.
C4_Witness ==
    \E c \in DOMAIN call :
        /\ call[c].workflow_type = "invoice_creation"
        /\ call[c].out = "returned"
        /\ \A b \in Branches : call[c].tasks[b] = "err"
        /\ Record(c).status = "completed"

\* C5: invoice data that lacks client_name or items, or has an item lacking a
\* key, is reported incomplete with a non-empty missing_fields; and an
\* invoice_creation that got an incomplete result returns it having started no
\* side effect, whatever send_email and webhook_url say.
IncompleteData(data) ==
    \/ data.client_name = ""
    \/ data.items = <<>>
    \/ \E i \in 1..Len(data.items) : ItemKeys \ data.items[i] # {}

C5_IncompleteNoSideEffects ==
    /\ \A data \in InvoiceDatas :
          /\ IncompleteData(data) <=> InvoiceResult(data).status = "incomplete"
          /\ IncompleteData(data) => InvoiceResult(data).missing_fields # <<>>
    /\ \A c \in DOMAIN call :
          (/\ call[c].workflow_type = "invoice_creation"
           /\ call[c].result # NoResult
           /\ call[c].result.status = "incomplete")
              => /\ call[c].pc = "done"
                 /\ call[c].out = "returned"
                 /\ call[c].result.missing_fields # <<>>
                 /\ \A b \in Branches : call[c].tasks[b] = "skip"
                 /\ call[c].effects = <<>>
                 /\ Record(c).status = "completed"
                 /\ Record(c).result = call[c].result

\* An incomplete invoice was returned although email and webhook were asked for.
C5_Witness ==
    \E c \in DOMAIN call :
        /\ call[c].workflow_type = "invoice_creation"
        /\ call[c].out = "returned"
        /\ call[c].result.status = "incomplete"
        /\ call[c].send_email
        /\ call[c].webhook_url

\* C6: an expense_processing execution that completes returns pending_review
\* exactly when the confidence is below 0.9 or a fraud analysis was run and
\* its severity is medium or higher, and approved in every other case.
ReviewSeverities == {"medium", "high", "critical"}

C6_ReviewIffLowConfidenceOrMediumRisk ==
    \A c \in DOMAIN call :
        (call[c].workflow_type = "expense_processing" /\ call[c].out = "returned")
            => LET r == call[c].result
                   review == \/ r.classification_confidence < 90
                             \/ /\ r.fraud_analysis # NoResult
                                /\ r.fraud_analysis.severity \in ReviewSeverities
               IN  r.status = IF review THEN "pending_review" ELSE "approved"

\* C7: an expense_processing execution that ends approved has scheduled the
\* forecast update exactly once; one that ends pending_review or failed, or
\* that has not ended, has scheduled none.
C7_ForecastScheduledOnceIffApproved ==
    \A c \in DOMAIN call :
        call[c].workflow_type = "expense_processing"
            => Cardinality(TasksOf(call[c].workflow_id)) =
                  IF call[c].out = "returned" /\ call[c].result.status = "approved"
                  THEN 1 ELSE 0

\* An expense was approved without a fraud analysis (amount below 100).
C7_Witness ==
    \E c \in DOMAIN call :
        /\ call[c].workflow_type = "expense_processing"
        /\ call[c].out = "returned"
        /\ call[c].result.status = "approved"
        /\ call[c].result.classification_confidence = 95
        /\ call[c].result.fraud_analysis = NoResult
        /\ Cardinality(TasksOf(call[c].workflow_id)) = 1

\* C8: the forecast update is detached: while it is pending, and after it has
\* returned or raised, the execution that scheduled it has returned its
\* approved result, and its record is completed with that result.
C8_ForecastUpdateDetached ==
    \A i \in DOMAIN forecast_tasks :
        /\ forecast_tasks[i].workflow_id \in DOMAIN active_workflows
        /\ active_workflows[forecast_tasks[i].workflow_id].status = "completed"
        /\ active_workflows[forecast_tasks[i].workflow_id].error = ""
        /\ active_workflows[forecast_tasks[i].workflow_id].result.status = "approved"
        /\ \E c \in DOMAIN call :
              /\ call[c].workflow_id = forecast_tasks[i].workflow_id
              /\ call[c].out = "returned"
              /\ call[c].result = active_workflows[forecast_tasks[i].workflow_id].result

\* The forecast update raised after execute_workflow had returned.
C8_Witness ==
    \E i \in DOMAIN forecast_tasks :
        /\ forecast_tasks[i].state = "failed"
        /\ active_workflows[forecast_tasks[i].workflow_id].status = "completed"
        /\ \E c \in DOMAIN call :
              /\ call[c].workflow_id = forecast_tasks[i].workflow_id
              /\ call[c].out = "returned"

C10_EveryExecutionTerminates ==
    \A c \in Calls :
        (call[c].pc # "idle") ~> (/\ call[c].pc = "done"
                                  /\ Record(c).status \in Terminal)

\* C11: stop_background_tasks cancels every background task the list holds:
\* each of them ends from where it is suspended, stop_background_tasks
\* returns, and after it has returned all the tasks it gathered have ended;
\* no step of the start, the stop or a background task changes the registry
\* or an execution, whatever the executions are doing.
C11_StopCancelsBackgroundTasks ==
    /\ [][(background_tasks' # background_tasks \/ stop_call' # stop_call)
             => UNCHANGED workflow_vars]_vars
    /\ [](\A s \in DOMAIN stop_call :
             /\ stop_call[s].pc = "gather"
                   => \A i \in stop_call[s].gathered :
                         \/ TaskDone(background_tasks[i])
                         \/ background_tasks[i].must_cancel
             /\ stop_call[s].pc = "returned"
                   => \A i \in stop_call[s].gathered : TaskDone(background_tasks[i]))
    /\ \A s \in 1..MaxStops :
          (s \in DOMAIN stop_call /\ stop_call[s].pc = "gather")
             ~> (s \in DOMAIN stop_call /\ stop_call[s].pc = "returned")

\* stop_background_tasks returned after cancelling a sleeping task, while an
\* execution was running.
C11_Witness ==
    /\ \E s \in DOMAIN stop_call :
          /\ stop_call[s].pc = "returned"
          /\ \E i \in stop_call[s].gathered : background_tasks[i].state = "returned"
    /\ \E id \in DOMAIN active_workflows : active_workflows[id].status = "running"

\* C12: a get_workflow_status call changes nothing of the registry and
\* returns, for an id execute_workflow has created, the record stored under it
\* as it is at that moment (type, state, priority, result, error) with the
\* id, and for every other id a reply of status not_found.
C12_StatusIsStoredRecord ==
    [][status_reply' # status_reply
         => /\ active_workflows' = active_workflows
            /\ \E id \in WorkflowIds :
                  /\ status_reply'.workflow_id = id
                  /\ IF \E c \in DOMAIN call :
                            call[c].pc # "idle" /\ call[c].workflow_id = id
                     THEN /\ DOMAIN status_reply' =
                                {"workflow_id"} \cup DOMAIN active_workflows[id]
                          /\ \A k \in DOMAIN active_workflows[id] :
                                status_reply'[k] = active_workflows[id][k]
                     ELSE status_reply' =
                             [workflow_id |-> id, status |-> "not_found"]]_vars

\* The reply showed an execution running that has completed since.
C12_Witness ==
    /\ status_reply # NoResult
    /\ status_reply.status = "running"
    /\ active_workflows[status_reply.workflow_id].status = "completed"

\* C13: in invoice_creation no fan-out branch is still running once the
\* record is completed or execute_workflow has ended: every branch that was
\* started has ended, with or without an error, before that.
C13_FanOutJoinedBeforeCompletion ==
    \A c \in DOMAIN call :
        (/\ call[c].workflow_type = "invoice_creation"
         /\ \/ call[c].pc = "done"
            \/ Record(c).status # "running")
            => /\ \A b \in Branches : call[c].tasks[b] # "run"
               /\ call[c].result # NoResult /\ call[c].result.status # "incomplete"
                     => \A b \in Branches :
                           FanOut(call[c])[b] = "run" => call[c].tasks[b] \in {"ok", "err"}

\* The record is completed after the email and the webhook ended well and the
\* CRM update with an error.
C13_Witness ==
    \E c \in DOMAIN call :
        /\ call[c].workflow_type = "invoice_creation"
        /\ Record(c).status = "completed"
        /\ call[c].tasks = [b \in Branches |-> IF b = "crm" THEN "err" ELSE "ok"]

\* C14: executions interleaved at their awaits have ids that differ, a step
\* of one execution changes neither another execution nor its record, a record
\* changes only in a step of the execution that created it, and an execution
\* that has ended has the record its own outcome gives: completed with the
\* result it returned, or failed with no result when it raised.
C14_ExecutionsIsolated ==
    /\ [](\A c, d \in DOMAIN call :
             (c # d /\ call[c].pc # "idle" /\ call[d].pc # "idle")
                => call[c].workflow_id # call[d].workflow_id)
    /\ [][\A c \in DOMAIN call :
             /\ call'[c] # call[c]
                   => \A d \in DOMAIN call \ {c} :
                         /\ call'[d] = call[d]
                         /\ call[d].pc # "idle"
                               => active_workflows'[call[d].workflow_id]
                                     = active_workflows[call[d].workflow_id]
             /\ (/\ call[c].pc # "idle"
                 /\ active_workflows'[call[c].workflow_id]
                       # active_workflows[call[c].workflow_id])
                   => call'[c] # call[c]]_vars
    /\ [](\A c \in DOMAIN call :
             call[c].pc = "done"
                => IF call[c].out = "returned"
                   THEN /\ Record(c).status = "completed"
                        /\ Record(c).result = call[c].result
                        /\ Record(c).error = ""
                   ELSE /\ call[c].out = "raised"
                        /\ Record(c).status = "failed"
                        /\ Record(c).result = NoResult
                        /\ Record(c).error # "")

\* An execution started second has completed while the first one, an
\* invoice_creation waiting for its branches, is still running.
C14_Witness ==
    \E c, d \in DOMAIN call :
        /\ call[c].pc = "gather"
        /\ Record(c).status = "running"
        /\ call[d].pc = "done"
        /\ call[d].workflow_id > call[c].workflow_id
        /\ Record(d).status = "completed"
        /\ Record(d).result = call[d].result

\* C15: the rule score of a feature vector is the sum, capped at 100, of the
\* points of the rules that fire (large_amount 40, rapid_transactions 35,
\* new_merchant 25, off_hours 15, location_anomaly 30); it lies in 0..100 and
\* is the same for two vectors that fire the same rules.
RulePoints ==
    [large_amount |-> 40, rapid_transactions |-> 35, new_merchant |-> 25,
     off_hours |-> 15, location_anomaly |-> 30]

RulesThatFire(features) ==
    {r \in DOMAIN RulePoints :
        \/ r = "large_amount" /\ features.large_amount > 0
        \/ r = "rapid_transactions" /\ features.velocity_1h > 500
        \/ r = "new_merchant" /\ features.merchant_novelty > 800
        \/ r = "off_hours" /\ features.off_hours > 500
        \/ r = "location_anomaly" /\ features.location_distance > 700}

RECURSIVE PointsOf(_)
PointsOf(rules) ==
    IF rules = {} THEN 0
    ELSE LET r == CHOOSE x \in rules : TRUE
         IN  RulePoints[r] + PointsOf(rules \ {r})

C15_RuleScoreIsCappedSum ==
    analyzer.last.op = "_apply_fraud_rules"
        => /\ analyzer.last.rule_score
                 = Min(100, PointsOf(RulesThatFire(analyzer.last.features)))
           /\ analyzer.last.rule_score \in 0..100
           /\ \A other \in FeatureVectors :
                 RulesThatFire(other) = RulesThatFire(analyzer.last.features)
                    => _apply_fraud_rules(other) = analyzer.last.rule_score

\* All five rules fire: the points add up to 145 and the score is 100.
C15_Witness ==
    /\ analyzer.last.op = "_apply_fraud_rules"
    /\ RulesThatFire(analyzer.last.features) = DOMAIN RulePoints
    /\ analyzer.last.rule_score = 100

\* C16: for an anomaly score and a rule score in [0,100] the composite score
\* is min(0.6 * anomaly + 0.4 * rule, 100) and lies in [0,100].
C16_CompositeIsWeightedSum ==
    analyzer.last.op = "_calculate_composite_score"
        => LET anomaly == analyzer.last.ml_score       \* hundredths
               rule == analyzer.last.rule_score        \* points
               weighted == (60 * anomaly + 40 * 100 * rule) \div 10   \* thousandths
           IN  /\ anomaly \in 0..(100 * 100) /\ rule \in 0..100
               /\ analyzer.last.composite =
                     IF weighted <= 100 * 1000 THEN weighted ELSE 100 * 1000
               /\ analyzer.last.composite \in 0..(100 * 1000)

\* Anomaly 63.33 with rule score 80 gives 69.998.
C16_Witness ==
    /\ analyzer.last.op = "_calculate_composite_score"
    /\ analyzer.last.ml_score = 6333
    /\ analyzer.last.rule_score = 80
    /\ analyzer.last.composite = 69998

\* C17: the severity is critical from 90, high from 80, medium from 70, low
\* from 60 (bounds included) and none below 60; a higher composite score never
\* gives a lower severity, and two scores of the same severity get the same
\* recommended actions.
SeverityRank ==
    [none |-> 0, low |-> 1, medium |-> 2, high |-> 3, critical |-> 4]

TierOf(composite) ==
    IF composite >= 90000 THEN "critical"
    ELSE IF composite >= 80000 THEN "high"
    ELSE IF composite >= 70000 THEN "medium"
    ELSE IF composite >= 60000 THEN "low"
    ELSE "none"

C17_SeverityIsMonotoneStep ==
    analyzer.last.op = "_determine_response"
        => /\ analyzer.last.response.severity = TierOf(analyzer.last.risk_score)
           /\ \A other \in CompositeScores :
                 LET r == _determine_response(other)
                 IN  /\ other >= analyzer.last.risk_score
                           => SeverityRank[r.severity]
                                 >= SeverityRank[analyzer.last.response.severity]
                     /\ r.severity = analyzer.last.response.severity
                           => r.actions = analyzer.last.response.actions

\* A composite score of exactly 70 is medium.
C17_Witness ==
    /\ analyzer.last.op = "_determine_response"
    /\ analyzer.last.risk_score = 70000
    /\ analyzer.last.response.severity = "medium"

\* C18: in the result of analyze_transaction requires_review is true exactly
\* when the composite score is at least 70 and auto_block exactly when it is
\* at least 90; auto_block implies requires_review, requires_review holds
\* exactly for severity medium, high or critical, and auto_block exactly for
\* critical.
C18_FlagsFollowComposite ==
    analyzer.last.op = "analyze_transaction"
        => LET r == analyzer.last.result
           IN  /\ r.requires_review <=> r.composite_score >= 70000
               /\ r.auto_block <=> r.composite_score >= 90000
               /\ r.auto_block => r.requires_review
               /\ r.requires_review <=> SeverityRank[r.severity] >= SeverityRank.medium
               /\ r.auto_block <=> r.severity = "critical"

\* A composite score of 92: severity critical, auto_block and requires_review
\* both set; the analysis before it had a composite of 89.996, which rounds to
\* 90.0: severity high, review required, no auto_block.
C18_Witness ==
    /\ analyzer.last.op = "analyze_transaction"
    /\ analyzer.last.result.composite_score = 92000
    /\ analyzer.last.result.severity = "critical"
    /\ analyzer.last.result.auto_block
    /\ analyzer.last.result.requires_review
    /\ analyzer.before.op = "analyze_transaction"
    /\ analyzer.before.result.composite_score = 89996
    /\ analyzer.before.result.risk_score = 9000
    /\ analyzer.before.result.severity = "high"
    /\ analyzer.before.result.requires_review
    /\ ~analyzer.before.result.auto_block

\* C19: two analyze_transaction runs on the same observation, at the same
\* hour and with the same profile, return the same anomaly score, composite
\* score, severity and flags.
C19_AnalysisDeterministic ==
    (/\ analyzer.last.op = "analyze_transaction"
     /\ analyzer.before.op = "analyze_transaction"
     /\ analyzer.last.obs = analyzer.before.obs
     /\ analyzer.last.hour = analyzer.before.hour)
        => LET r == analyzer.last.result
               q == analyzer.before.result
           IN  /\ r.ml_score = q.ml_score
               /\ r.composite_score = q.composite_score
               /\ r.severity = q.severity
               /\ r.requires_review = q.requires_review
               /\ r.auto_block = q.auto_block

\* C20: whatever of amount, merchant, category and location is absent and
\* whatever the profile, _extract_features returns a mapping with exactly the
\* eight feature names, each with a value in [0,1].
FeatureNames ==
    {"amount_zscore", "large_amount", "merchant_novelty", "category_mismatch",
     "off_hours", "velocity_1h", "velocity_24h", "location_distance"}

C20_FeaturesTotalAndBounded ==
    analyzer.last.op = "_extract_features"
        => /\ DOMAIN analyzer.last.features = FeatureNames
           /\ \A k \in FeatureNames : analyzer.last.features[k] \in 0..1000

\* Nothing of the observation is present: every feature has its default.
C20_Witness ==
    /\ analyzer.last.op = "_extract_features"
    /\ analyzer.last.amount = <<>>
    /\ analyzer.last.merchant = ""
    /\ analyzer.last.category = ""
    /\ analyzer.last.location = NoLocation
    /\ analyzer.last.features.amount_zscore = 0
    /\ analyzer.last.features.merchant_novelty = 500
    /\ analyzer.last.features.category_mismatch = 300

\* C21: for every amount and every profile with average and deviation at 0 or
\* above, large_amount is 1.0 exactly when amount > avg + 3 * std, and 0.0
\* otherwise.
C21_LargeAmountIffAboveThreeSigma ==
    (analyzer.last.op = "_extract_features" /\ analyzer.last.amount # <<>>)
        => LET amount == analyzer.last.amount[1]
               avg == analyzer.last.user_profile.avg_transaction
               std == analyzer.last.user_profile.std_transaction
           IN  analyzer.last.features.large_amount =
                  IF amount > avg + 3 * std THEN 1000 ELSE 0

\* C22: for every amount and every profile with a deviation above 0 the
\* amount_zscore is min(|amount - avg| / std, 3) / 3; with a deviation of 0 it
\* is 0.
C22_ZScoreIsNormalisedDistance ==
    (analyzer.last.op = "_extract_features" /\ analyzer.last.amount # <<>>)
        => LET amount == analyzer.last.amount[1]
               avg == analyzer.last.user_profile.avg_transaction
               std == analyzer.last.user_profile.std_transaction
           IN  analyzer.last.features.amount_zscore =
                  IF std > 0
                  THEN Min((Abs(amount - avg) * 1000) \div std, 3 * 1000) \div 3
                  ELSE 0

\* C23: analyze_transaction creates a fraud alert, and its result carries an
\* alert_id, exactly when the severity is medium, high or critical; for
\* severity none or low it creates none and the result has no alert_id; no
\* analysis creates more than one alert.
C23_AlertIffMediumOrHigher ==
    analyzer.last.op = "analyze_transaction"
        => LET r == analyzer.last.result
           IN  /\ r.alerts_created = IF r.severity \in ReviewSeverities THEN 1 ELSE 0
               /\ r.has_alert_id <=> r.severity \in ReviewSeverities
               /\ r.alerts_created <= 1

\* An analysis of severity medium (composite 79.994) created its one alert.
C23_Witness ==
    /\ analyzer.last.op = "analyze_transaction"
    /\ analyzer.last.result.severity = "medium"
    /\ analyzer.last.result.alerts_created = 1
    /\ analyzer.last.result.has_alert_id

\* C24: the result of an expense_processing execution carries a review_reason
\* exactly when its status is pending_review; the reason is 'Low
\* classification confidence' whenever the confidence is below 0.9, and 'High
\* fraud risk detected' only when the confidence is at least 0.9 and the risk
\* score of the fraud analysis is what held the expense.
C24_ReviewReasonNamesCause ==
    \A c \in DOMAIN call :
        (call[c].workflow_type = "expense_processing" /\ call[c].out = "returned")
            => LET r == call[c].result
               IN  /\ r.review_reason # "" <=> r.status = "pending_review"
                   /\ (r.status = "pending_review" /\ r.classification_confidence < 90)
                         => r.review_reason = "Low classification confidence"
                   /\ r.review_reason = "High fraud risk detected"
                         => /\ r.classification_confidence >= 90
                            /\ r.fraud_analysis # NoResult
                            /\ r.fraud_analysis.risk_score >= 70 * 100
                   /\ r.review_reason \in {"", "Low classification confidence",
                                           "High fraud risk detected"}

\* Low confidence and a fraud risk of 70 or more together: the reason is
\* the confidence.
C24_Witness ==
    \E c \in DOMAIN call :
        /\ call[c].workflow_type = "expense_processing"
        /\ call[c].out = "returned"
        /\ call[c].result.classification_confidence = 85
        /\ call[c].result.fraud_analysis # NoResult
        /\ call[c].result.fraud_analysis.risk_score >= 70 * 100
        /\ call[c].result.review_reason = "Low classification confidence"

\* C26: a record is in state running only while its execute_workflow call is
\* in progress: once the call has returned or raised, also when the task
\* running it was cancelled at an await, the record is completed or failed.
C26_RunningOnlyWhileInProgress ==
    \A c \in DOMAIN call :
        call[c].pc = "done" => Record(c).status \in Terminal

\* C27: expense_processing does not fail for want of a usable amount: unless
\* file.read(), process_receipt or analyze_transaction raised, the execution ends
\* completed with status approved or pending_review, and a result without an
\* amount carries no fraud analysis.
C27_MissingAmountSkipsFraudAnalysis ==
    \A c \in DOMAIN call :
        (/\ call[c].workflow_type = "expense_processing"
         /\ call[c].pc = "done"
         /\ call[c].raised_by \notin {"file.read", "process_receipt",
                                      "analyze_transaction"})
            => /\ call[c].out = "returned"
               /\ Record(c).status = "completed"
               /\ call[c].result.status \in {"approved", "pending_review"}
               /\ call[c].result.amount = <<>>
                     => call[c].result.fraud_analysis = NoResult

\* C28: when stop_background_tasks returns, no task the orchestrator created
\* is still pending: the background tasks it gathered have ended, and every
\* forecast-update task an approved expense_processing execution detached
\* before has finished or been cancelled.
C28_NoTaskPendingAfterStop ==
    [][\A s \in DOMAIN stop_call' :
          (stop_call'[s].pc = "returned"
              /\ (s \notin DOMAIN stop_call \/ stop_call[s].pc = "gather"))
             => /\ \A i \in stop_call'[s].gathered : TaskDone(background_tasks'[i])
                /\ \A i \in DOMAIN forecast_tasks' :
                      forecast_tasks'[i].state # "pending"]_vars

\* C29: with the feature extractor's placeholders and the anomaly scorer of
\* the code (a score in [20, 80), or 50), no analysis has a rule score above
\* 80, a composite score of 90 or more, severity critical or auto_block set,
\* so a fraud_detection execution never enters the block or the alert side
\* effect; the same holds of the analysis expense_processing asks for.
C29_ReferenceAnalysisNeverCritical ==
    \A c \in DOMAIN call :
        LET fraud_result ==
               IF call[c].result.kind = "expense"
               THEN call[c].result.fraud_analysis ELSE call[c].result
        IN  fraud_result.kind = "fraud"
               => /\ fraud_result.rule_score <= 80
                  /\ fraud_result.composite_score < Thresholds.critical * 1000
                  /\ fraud_result.risk_score < Thresholds.critical * 100
                  /\ fraud_result.severity # "critical"
                  /\ ~fraud_result.auto_block
                  /\ call[c].pc \notin {"block", "alert"}
                  /\ call[c].raised_by \notin {"block", "alert"}
                  /\ call[c].effects = <<>>

\* A fraud_detection execution returned the analysis with the highest scores
\* the reference extractor and scorer give: three rules fired, 80 points.
C29_Witness ==
    \E c \in DOMAIN call :
        /\ call[c].workflow_type = "fraud_detection"
        /\ call[c].out = "returned"
        /\ call[c].result.ml_score = 7999
        /\ call[c].result.rule_score = 80
        /\ call[c].result.composite_score = 79994
        /\ call[c].effects = <<>>

\* C30: whatever start_background_tasks and stop_background_tasks calls are
\* made, at most one task of each background coroutine is pending, and
\* background_tasks holds no task that has ended (the loops never return of
\* themselves: a task that has ended is one that was cancelled).
C30_OneTaskOfEachAndNoneCancelled ==
    /\ \A k \in DOMAIN BackgroundTaskNames :
          Cardinality({i \in DOMAIN background_tasks :
                          /\ background_tasks[i].name = BackgroundTaskNames[k]
                          /\ ~TaskDone(background_tasks[i])}) <= 1
    /\ \A i \in DOMAIN background_tasks : ~TaskDone(background_tasks[i])

=============================================================================
